---------------------------- MODULE Spec2Model ----------------------------
(***************************************************************************)
(* State-machine model of parastell.Stellarator (src/parastell/            *)
(* parastell.py): the vmec_file setter, the construct_* operations that    *)
(* create the in-vessel build and the magnet set, and export_dagmc, which  *)
(* imports the in-vessel STEP files, resolves overlaps, tags materials and *)
(* calls the faceted export.                                               *)
(*                                                                         *)
(* The solid-modelling kernel is a command sink: the model records, per    *)
(* export_dagmc call, the sequence of commands and cubit_io calls issued   *)
(* (variable log) and the arguments of the faceted-export call (variable   *)
(* exportCall).  export_dagmc is single-threaded; it is modelled as its    *)
(* four consecutive stages (import, resolve, tag, facet), and no other     *)
(* operation runs while a call is between stages.  The record of the most  *)
(* recent calls (args, log, tagMode, exportCall, outcome, last) is kept    *)
(* while the Stellarator they ran on is unchanged: a construct_* operation *)
(* starts a new record.                                                    *)
(*                                                                         *)
(* The export_* operations write files (variable files); the source mesh   *)
(* is the attribute source_mesh.  The command-line entry point parastell() *)
(* (lines 462-486) is the run recorded in variable cli: it calls the       *)
(* operations of one Stellarator in the order of its statements, and an    *)
(* exception raised by a call ends the run.                                *)
(***************************************************************************)
EXTENDS Integers, Sequences, FiniteSets, TLC

VARIABLES
    phase,          \* "new": before __init__; "live": constructed; "dead": __init__ raised
    vmec_file,      \* self._vmec_file
    vmec_obj,       \* the file whose data self._vmec_obj holds
    vmecCall,       \* the most recent run of the vmec_file setter
    invessel_build, \* self.invessel_build
    magnet_set,     \* self.magnet_set
    lastVolId,      \* the kernel session's last volume identifier
    tol,            \* the five tolerance attributes of self
    pc,             \* stage of the export_dagmc call in progress, or "idle"
    args,           \* arguments of the current / most recent export_dagmc call
    log,            \* commands issued by the current / most recent call
    tagMode,        \* which _tag_materials_* function that call ran
    exportCall,     \* the faceted-export calls of that call, with arguments
    outcome,        \* "none", "running", "exported" or "AttributeError"
    last,           \* summary of the call before that one
    buildCalls,     \* what the most recent construct_invessel_build called
    source_mesh,    \* self.source_mesh
    meshSeen,       \* whether source_mesh was set when that export call began
    files,          \* the files the export_* operations have written
    cli             \* the run of parastell(): operations called, in order

vars == <<phase, vmec_file, vmec_obj, vmecCall, invessel_build, magnet_set,
          lastVolId, tol, pc, args, log, tagMode, exportCall, outcome, last,
          buildCalls, source_mesh, meshSeen, files, cli>>

vmecVars == <<vmec_file, vmec_obj, vmecCall>>
buildVars == <<invessel_build, magnet_set, lastVolId>>
exportVars == <<tol, pc, args, log, tagMode, exportCall, outcome, last,
                meshSeen>>
\* the record of the most recent export_dagmc calls
recordVars == <<args, log, tagMode, exportCall, outcome, last, meshSeen>>
\* what export_dagmc and the construct_* operations of the solids leave alone
meshVars == <<source_mesh, files>>
\* what a stage of export_dagmc leaves alone besides
stageFrame == <<meshSeen, buildCalls, source_mesh, files>>

---------------------------------------------------------------------------
(* Bounds of the model *)

\* most components in a radial build
MaxComps == 2
\* most coils (volumes) in a magnet set
MaxCoils == 2
\* the kernel session hands out volume identifiers 1..MaxVol
MaxVol == 6

---------------------------------------------------------------------------
(* Values *)

\* the value of data['vol_id'] before any import has set the key; also the
\* block field of a command that names no block
NoId == 0

\* A path is the sequence of the dot-separated parts of its file name.
Files == { <<"wout", "nc">>, <<"wout", "txt">>, <<"wout">> }
NoFile == << >>

\* pathlib.Path(file).suffix: the last part when the name has a dot
Suffix(file) == IF Len(file) >= 2 THEN file[Len(file)] ELSE ""

\* component names are the keys of radial_build_dict, in insertion order
NameOrder == << "plasma", "sol", "wall", "shield" >>
\* material tags: 'magnets' is the magnet set's default tag (line 216); a
\* component may be given any tag, also that one
CompTags == { "plasma", "wall", "magnets" }
MagnetTags == { "magnets" }

\* radial_build_dict given to construct_invessel_build: name -> mat_tag
RadialBuilds ==
    UNION { { [i \in 1..k |-> [name |-> NameOrder[i], mat_tag |-> t[i]]] :
                t \in [1..k -> CompTags] } : k \in 1..MaxComps }

\* toroidal_angles given to construct_invessel_build, in degrees
ToroidalAngles == { <<0, 45, 90>>, <<0, 90, 45>>, <<15, 45, 90>> }

\* ivb.RadialBuild raises unless the toroidal angles increase strictly from 0
RadialBuildAccepts(toroidal_angles) ==
    /\ toroidal_angles[1] = 0
    /\ \A i \in 1..(Len(toroidal_angles) - 1) :
          toroidal_angles[i] < toroidal_angles[i + 1]

NoBuild == [set |-> FALSE, rbd |-> << >>]
NoCalls == [calls |-> << >>, raised |-> "none"]
NoMesh == [set |-> FALSE]
NoCli == [on |-> FALSE, failed |-> FALSE, trace |-> << >>]
\* the toroidal angles the RadialBuild constructor accepts
ValidAngles == { a \in ToroidalAngles : RadialBuildAccepts(a) }
NoMagnets == [set |-> FALSE, mat_tag |-> "", volume_ids |-> {}]

LegacyNames == { "faceting_tolerance", "length_tolerance", "normal_tolerance" }
NativeNames == { "anisotropic_ratio", "deviation_angle" }
TolNames == LegacyNames \cup NativeNames

\* the value a caller supplies for each tolerance keyword
KwValue ==
    [faceting_tolerance |-> "1e-2", length_tolerance |-> "1e-1",
     normal_tolerance |-> "15.0", anisotropic_ratio |-> "50.0",
     deviation_angle |-> "2.5"]

\* the **kwargs dictionaries of export_dagmc explored with the assembly
KwargsMain == { << >>, KwValue }

\* the **kwargs dictionaries explored with the tolerance attributes
KwargsChoices ==
    { [n \in D |-> KwValue[n]] :
        D \in { {} } \cup { {n} : n \in TolNames }
              \cup { {"faceting_tolerance", "anisotropic_ratio"},
                     {"normal_tolerance", "deviation_angle"}, TolNames } }

UnsetTol == [n \in TolNames |-> "unset"]

\* lines 392-396
DefaultTol ==
    [faceting_tolerance |-> "None", length_tolerance |-> "None",
     normal_tolerance |-> "None", anisotropic_ratio |-> "100.0",
     deviation_angle |-> "5.0"]

NoArgs == [skip_imprint |-> FALSE, legacy_faceting |-> TRUE, kwargs |-> << >>]
NoLast == [valid |-> FALSE]

Min(S) == CHOOSE m \in S : \A x \in S : m <= x

\* a kernel command or cubit_io / invessel_build call, as logged
Cmd(op, name, block, vols) ==
    [op |-> op, name |-> name, block |-> block, vols |-> vols]

ImportOps == { "import_step" }
ResolveOps == { "imprint_all", "merge_all", "merge_layer_surfaces" }
GroupOps == { "group_add" }
BlockOps == { "set_duplicate_off", "create_material", "block_add",
              "block_material" }
TagOps == GroupOps \cup BlockOps
FacetOps == { "export_legacy", "export_native" }

StageOf(op) ==
    IF op \in ImportOps THEN 1
    ELSE IF op \in ResolveOps THEN 2
    ELSE IF op \in TagOps THEN 3
    ELSE 4

---------------------------------------------------------------------------
(* The vmec_file setter, lines 71-82, and __init__, lines 54-65 *)

\* parastell() has no exception handler: when a run is in progress, the
\* operation it calls joins the run's trace, and an exception the call
\* raises ends the run
Called(op, raised) ==
    cli' = IF cli.on
           THEN [cli EXCEPT !.trace = Append(@, op), !.failed = raised]
           ELSE cli

\* VMECData(file) either returns the data of the file (readOk) or raises.
\* The setter stores the path, then reads, then checks the extension.
VmecSetter(file, readOk) ==
    /\ vmec_file' = file
    /\ vmec_obj' = IF readOk THEN file ELSE vmec_obj
    /\ vmecCall' =
         [file |-> file, read |-> TRUE,
          raised |-> IF ~readOk THEN "ReaderError"
                     ELSE IF Suffix(file) # "nc" THEN "ValueError"
                     ELSE "none"]

\* Stellarator(vmec_file): the object exists only if the setter did not raise
New(file, readOk) ==
    /\ phase = "new"
    /\ VmecSetter(file, readOk)
    /\ phase' = IF vmecCall'.raised = "none" THEN "live" ELSE "dead"
    /\ invessel_build' = NoBuild
    /\ magnet_set' = NoMagnets
    /\ source_mesh' = NoMesh
    /\ Called("Stellarator", vmecCall'.raised # "none")
    /\ UNCHANGED <<lastVolId, buildCalls, files>>
    /\ UNCHANGED exportVars

\* stellarator.vmec_file = file, on a constructed object
SetVmecFile(file, readOk) ==
    /\ phase = "live"
    /\ pc = "idle"
    /\ VmecSetter(file, readOk)
    /\ UNCHANGED <<phase, buildCalls, cli>>
    /\ UNCHANGED buildVars
    /\ UNCHANGED exportVars
    /\ UNCHANGED meshVars

---------------------------------------------------------------------------
(* construct_invessel_build, lines 149-167; construct_magnets, 218-226 *)

\* the Stellarator changed: the record of its export calls starts anew
NewRecord ==
    /\ args' = NoArgs
    /\ log' = << >>
    /\ tagMode' = "none"
    /\ exportCall' = << >>
    /\ outcome' = "none"
    /\ last' = NoLast
    /\ meshSeen' = FALSE

\* the radial_build_dict of a new InVesselBuild: no component has a vol_id
NewRadialBuildDict(rb) ==
    [i \in DOMAIN rb |->
        [name |-> rb[i].name, mat_tag |-> rb[i].mat_tag, vol_id |-> NoId]]

\* the statements in an order that creates the InVesselBuild and generates
\* its components before the radial build is validated
BuildStepsValidateLast ==
    << "InVesselBuild", "populate_surfaces", "calculate_loci",
       "generate_components", "RadialBuild" >>

\* lines 149-167: the constructors and methods construct_invessel_build
\* calls, in the order of its statements
BuildSteps ==
    << "RadialBuild", "InVesselBuild", "populate_surfaces", "calculate_loci",
       "generate_components" >>

\* the steps that have run when step s raises: those up to and including s
UpTo(steps, s) ==
    SubSeq(steps, 1, CHOOSE i \in 1..Len(steps) : steps[i] = s)

\* construct_invessel_build(toroidal_angles, ..., radial_build_dict): an
\* exception of the RadialBuild constructor leaves the method at that
\* statement; self.invessel_build is assigned by the InVesselBuild statement
ConstructInvesselBuild(toroidal_angles, rb) ==
    /\ phase = "live"
    /\ pc = "idle"
    /\ LET accepted == RadialBuildAccepts(toroidal_angles)
           calls == IF accepted THEN BuildSteps
                    ELSE UpTo(BuildSteps, "RadialBuild")
           built == \E i \in DOMAIN calls : calls[i] = "InVesselBuild"
       IN  /\ buildCalls' =
                [calls |-> calls,
                 raised |-> IF accepted THEN "none" ELSE "ValidationError"]
           /\ IF built
              THEN /\ invessel_build' =
                        [set |-> TRUE, rbd |-> NewRadialBuildDict(rb)]
                   /\ NewRecord
              ELSE /\ UNCHANGED invessel_build
                   /\ UNCHANGED recordVars
           /\ Called("construct_invessel_build", ~accepted)
    /\ UNCHANGED <<phase, magnet_set, lastVolId, tol, pc>>
    /\ UNCHANGED vmecVars
    /\ UNCHANGED meshVars

\* MagnetSet.build_magnet_coils sweeps n coils in the kernel session; the
\* set records the identifiers of the n new volumes and its one material tag
BuildMagnetCoils(mat_tag, n, lastId) ==
    [set |-> TRUE, mat_tag |-> mat_tag,
     volume_ids |-> (lastId + 1)..(lastId + n)]

ConstructMagnets(mat_tag, n) ==
    /\ phase = "live"
    /\ pc = "idle"
    /\ lastVolId + n <= MaxVol
    /\ magnet_set' = BuildMagnetCoils(mat_tag, n, lastVolId)
    /\ lastVolId' = lastVolId + n
    /\ NewRecord
    /\ Called("construct_magnets", FALSE)
    /\ UNCHANGED <<phase, invessel_build, tol, pc, buildCalls>>
    /\ UNCHANGED vmecVars
    /\ UNCHANGED meshVars

---------------------------------------------------------------------------
(* _import_ivb_step, lines 303-313 *)

\* cubit_io.import_step_cubit imports one STEP file and returns the
\* identifier of the volume the kernel created for it
import_step_cubit(lastId) == lastId + 1

\* the loop with data.setdefault('vol_id', vol_id): a component that has an
\* identifier from an earlier import keeps it
RECURSIVE ImportLoopSetDefault(_, _, _)
ImportLoopSetDefault(rbd, i, lastId) ==
    IF i > Len(rbd) THEN [rbd |-> rbd, lastId |-> lastId, cmds |-> << >>]
    ELSE LET vol_id == import_step_cubit(lastId)
             kept == IF rbd[i].vol_id = NoId THEN vol_id ELSE rbd[i].vol_id
             rest == ImportLoopSetDefault([rbd EXCEPT ![i].vol_id = kept],
                                         i + 1, vol_id)
         IN  [rbd |-> rest.rbd, lastId |-> rest.lastId,
              cmds |-> << Cmd("import_step", << rbd[i].name >>, NoId,
                              {vol_id}) >> \o rest.cmds]

\* the loop over radial_build_dict.items(), from component i on: the
\* updated dictionary, the session's last identifier, the calls made
RECURSIVE ImportLoop(_, _, _)
ImportLoop(rbd, i, lastId) ==
    IF i > Len(rbd) THEN [rbd |-> rbd, lastId |-> lastId, cmds |-> << >>]
    ELSE LET vol_id == import_step_cubit(lastId)
             rest == ImportLoop([rbd EXCEPT ![i].vol_id = vol_id], i + 1,
                                vol_id)
         IN  [rbd |-> rest.rbd, lastId |-> rest.lastId,
              cmds |-> << Cmd("import_step", << rbd[i].name >>, NoId,
                              {vol_id}) >> \o rest.cmds]

\* the assignment data['vol_id'] = vol_id placed after the loop: only the
\* last component records its identifier
ImportIvbStepStoreLast(rbd, lastId) ==
    LET r == ImportLoop(rbd, 1, lastId)
    IN  [r EXCEPT !.rbd = [i \in DOMAIN rbd |->
                             IF i = Len(rbd) THEN r.rbd[i] ELSE rbd[i]]]

\* the import skipped when the components were imported by an earlier call
ImportIvbStepOnce(rbd, lastId) ==
    IF \A i \in DOMAIN rbd : rbd[i].vol_id # NoId
    THEN [rbd |-> rbd, lastId |-> lastId, cmds |-> << >>]
    ELSE ImportLoop(rbd, 1, lastId)

ImportIvbStep(rbd, lastId) == ImportLoop(rbd, 1, lastId)

---------------------------------------------------------------------------
(* make_material_block, lines 16-35; _tag_materials_legacy, lines 315-332; *)
(* _tag_materials_native, lines 334-353                                    *)

make_material_block(mat_tag, block_id, vols) ==
    << Cmd("create_material", << mat_tag >>, NoId, {}),
       Cmd("block_add", << >>, block_id, vols),
       Cmd("block_material", << mat_tag >>, block_id, {}) >>

\* group "mat:<tag>" add volume <ids>
GroupAdd(mat_tag, vols) == Cmd("group_add", << "mat:", mat_tag >>, NoId, vols)

LegacyMagnetCmds(ms) ==
    IF ms.set THEN << GroupAdd(ms.mat_tag, ms.volume_ids) >> ELSE << >>

\* the components grouped under their names instead of their material tags
LegacyIvbCmdsByName(ivb) ==
    IF ivb.set
    THEN [i \in DOMAIN ivb.rbd |->
            GroupAdd(ivb.rbd[i].name, {ivb.rbd[i].vol_id})]
    ELSE << >>

LegacyIvbCmds(ivb) ==
    IF ivb.set
    THEN [i \in DOMAIN ivb.rbd |->
            GroupAdd(ivb.rbd[i].mat_tag, {ivb.rbd[i].vol_id})]
    ELSE << >>

TagMaterialsLegacy(ms, ivb) == LegacyMagnetCmds(ms) \o LegacyIvbCmds(ivb)

\* the magnet block numbered by the first magnet volume it finds, holding
\* that volume only
NativeMagnetCmdsOneVolume(ms) ==
    IF ms.set
    THEN LET v == CHOOSE x \in ms.volume_ids : TRUE
         IN  make_material_block(ms.mat_tag, v, {v})
    ELSE << >>

NativeMagnetCmds(ms) ==
    IF ms.set
    THEN make_material_block(ms.mat_tag, Min(ms.volume_ids), ms.volume_ids)
    ELSE << >>

\* the component blocks numbered by the position of the component in the
\* radial build instead of by its volume identifier
RECURSIVE NativeIvbLoopByIndex(_, _)
NativeIvbLoopByIndex(rbd, i) ==
    IF i > Len(rbd) THEN << >>
    ELSE make_material_block(rbd[i].mat_tag, i, {rbd[i].vol_id})
         \o NativeIvbLoopByIndex(rbd, i + 1)

\* lines 346-353: one block per component, numbered by its vol_id
RECURSIVE NativeIvbLoop(_, _)
NativeIvbLoop(rbd, i) ==
    IF i > Len(rbd) THEN << >>
    ELSE make_material_block(rbd[i].mat_tag, rbd[i].vol_id, {rbd[i].vol_id})
         \o NativeIvbLoop(rbd, i + 1)

NativeIvbCmds(ivb) == IF ivb.set THEN NativeIvbLoop(ivb.rbd, 1) ELSE << >>

TagMaterialsNative(ms, ivb) ==
    << Cmd("set_duplicate_off", << >>, NoId, {}) >>
    \o NativeMagnetCmds(ms) \o NativeIvbCmds(ivb)

---------------------------------------------------------------------------
(* export_dagmc, lines 355-432 *)

\* the tagging decisions of a command sequence with the volume identifiers
\* abstracted: per tagging command its kind, its name and how many volumes
Grouping(cmds) ==
    LET tagging == SelectSeq(cmds, LAMBDA c : c.op \in TagOps)
    IN  [i \in DOMAIN tagging |->
            << tagging[i].op, tagging[i].name,
               Cardinality(tagging[i].vols) >>]

\* where a volume that a command names comes from, by the call's own
\* imports and the magnet set: a component (by name), the magnet set, or
\* neither
Origin(cmds, ms, v) ==
    LET imports == { j \in DOMAIN cmds :
                        cmds[j].op = "import_step" /\ v \in cmds[j].vols }
    IN  IF imports # {} THEN cmds[CHOOSE j \in imports : TRUE].name
        ELSE IF v \in ms.volume_ids THEN << "magnet_set" >>
        ELSE << "unknown" >>

\* the volume-to-material mapping of a command sequence, identifiers
\* abstracted: which entity has how many volumes under which group or block
\* command and name
Mapping(cmds, ms) ==
    UNION { { << o, cmds[j].op, cmds[j].name,
                 Cardinality({ v \in cmds[j].vols : Origin(cmds, ms, v) = o })
              >> : o \in { Origin(cmds, ms, v) : v \in cmds[j].vols } } :
            j \in { k \in DOMAIN cmds : cmds[k].op \in TagOps } }

\* what is remembered of a finished call when the next one begins
Summary ==
    [valid |-> TRUE, args |-> args, grouping |-> Grouping(log),
     mapping |-> Mapping(log, magnet_set),
     ops |-> [i \in DOMAIN log |-> log[i].op],
     call |-> exportCall, outcome |-> outcome, mesh |-> meshSeen]

\* the defaults assigned after the keyword arguments: every call exports
\* with the default tolerances
SetTolerancesDefaultsLast(kwargs) ==
    [n \in TolNames |-> DefaultTol[n]]

\* the defaults assigned only to an attribute no call has set yet: a
\* tolerance keeps the value an earlier call gave it
SetTolerancesKeep(kwargs) ==
    [n \in TolNames |-> IF n \in DOMAIN kwargs THEN kwargs[n]
                        ELSE IF tol[n] = "unset" THEN DefaultTol[n]
                        ELSE tol[n]]

\* lines 392-399: the five attributes are reset, then every keyword
\* argument is set as an attribute of self
SetTolerances(kwargs) ==
    [n \in TolNames |-> IF n \in DOMAIN kwargs THEN kwargs[n]
                        ELSE DefaultTol[n]]

\* the statements of export_dagmc run tagging before the resolution step
NextStageTagFirst(stage) ==
    CASE stage = "begin" -> "import"
      [] stage = "import" -> "tag"
      [] stage = "tag" -> "resolve"
      [] stage = "resolve" -> "facet"
      [] stage = "facet" -> "idle"

\* the order of the statements of export_dagmc, lines 392-432: the stage
\* that follows each stage
NextStage(stage) ==
    CASE stage = "begin" -> "import"
      [] stage = "import" -> "resolve"
      [] stage = "resolve" -> "tag"
      [] stage = "tag" -> "facet"
      [] stage = "facet" -> "idle"

\* lines 392-405
ExportBegin(skip_imprint, legacy_faceting, kwargs) ==
    /\ phase = "live"
    /\ pc = "idle"
    /\ invessel_build.set => lastVolId + Len(invessel_build.rbd) <= MaxVol
    /\ tol' = SetTolerances(kwargs)
    /\ args' = [skip_imprint |-> skip_imprint,
                legacy_faceting |-> legacy_faceting, kwargs |-> kwargs]
    /\ last' = IF outcome \in {"exported", "AttributeError"}
               THEN Summary ELSE NoLast
    /\ log' = << >>
    /\ tagMode' = "none"
    /\ exportCall' = << >>
    /\ outcome' = "running"
    /\ meshSeen' = source_mesh.set
    /\ pc' = NextStage("begin")
    /\ Called("export_dagmc", FALSE)
    /\ UNCHANGED <<phase, buildCalls>>
    /\ UNCHANGED vmecVars
    /\ UNCHANGED buildVars
    /\ UNCHANGED meshVars

\* an import step that also imports the source mesh once one is constructed
ExportImportWithMesh ==
    /\ pc = "import"
    /\ LET mesh == IF source_mesh.set
                   THEN << Cmd("import_step", << "source_mesh" >>, NoId, {}) >>
                   ELSE << >>
       IN  IF invessel_build.set
           THEN LET r == ImportIvbStep(invessel_build.rbd, lastVolId)
                IN  /\ invessel_build' =
                         [invessel_build EXCEPT !.rbd = r.rbd]
                    /\ lastVolId' = r.lastId
                    /\ log' = log \o r.cmds \o mesh
           ELSE /\ log' = log \o mesh
                /\ UNCHANGED <<invessel_build, lastVolId>>
    /\ pc' = NextStage("import")
    /\ UNCHANGED <<phase, magnet_set, tol, args, tagMode, exportCall,
                   outcome, last, cli>>
    /\ UNCHANGED vmecVars
    /\ UNCHANGED stageFrame

\* lines 407-408
ExportImport ==
    /\ pc = "import"
    /\ IF invessel_build.set
       THEN LET r == ImportIvbStep(invessel_build.rbd, lastVolId)
            IN  /\ invessel_build' = [invessel_build EXCEPT !.rbd = r.rbd]
                /\ lastVolId' = r.lastId
                /\ log' = log \o r.cmds
       ELSE UNCHANGED <<invessel_build, lastVolId, log>>
    /\ pc' = NextStage("import")
    /\ UNCHANGED <<phase, magnet_set, tol, args, tagMode, exportCall,
                   outcome, last, cli>>
    /\ UNCHANGED vmecVars
    /\ UNCHANGED stageFrame

\* a resolution step that imprints and merges all on both paths
ResolveCmdsImprintAlways(skip_imprint) ==
    IF skip_imprint
    THEN << Cmd("merge_layer_surfaces", << >>, NoId, {}),
            Cmd("imprint_all", << >>, NoId, {}),
            Cmd("merge_all", << >>, NoId, {}) >>
    ELSE << Cmd("imprint_all", << >>, NoId, {}),
            Cmd("merge_all", << >>, NoId, {}) >>

\* lines 410-414: what the resolution step issues
ResolveCmds(skip_imprint) ==
    IF skip_imprint
    THEN << Cmd("merge_layer_surfaces", << >>, NoId, {}) >>
    ELSE << Cmd("imprint_all", << >>, NoId, {}),
            Cmd("merge_all", << >>, NoId, {}) >>

\* a resolution step that merges layer surfaces only when an in-vessel
\* build exists, as the import step does
ExportResolveGuarded ==
    /\ pc = "resolve"
    /\ log' = log \o (IF args.skip_imprint /\ ~invessel_build.set
                       THEN << >> ELSE ResolveCmds(args.skip_imprint))
    /\ pc' = NextStage("resolve")
    /\ UNCHANGED <<phase, tol, args, tagMode, exportCall, last, outcome, cli>>
    /\ UNCHANGED vmecVars
    /\ UNCHANGED buildVars
    /\ UNCHANGED stageFrame

\* lines 410-414: with skip_imprint and no in-vessel build the attribute
\* lookup on None raises AttributeError and the call ends there
ExportResolve ==
    /\ pc = "resolve"
    /\ IF args.skip_imprint /\ ~invessel_build.set
       THEN /\ outcome' = "AttributeError"
            /\ pc' = "idle"
            /\ cli' = [cli EXCEPT !.failed = cli.on]
            /\ UNCHANGED log
       ELSE /\ log' = log \o ResolveCmds(args.skip_imprint)
            /\ pc' = NextStage("resolve")
            /\ UNCHANGED <<outcome, cli>>
    /\ UNCHANGED <<phase, tol, args, tagMode, exportCall, last>>
    /\ UNCHANGED vmecVars
    /\ UNCHANGED buildVars
    /\ UNCHANGED stageFrame

\* a tagging step that ignores legacy_faceting
ExportTagAlwaysLegacy ==
    /\ pc = "tag"
    /\ log' = log \o TagMaterialsLegacy(magnet_set, invessel_build)
    /\ tagMode' = "legacy"
    /\ pc' = "facet"
    /\ UNCHANGED <<phase, tol, args, exportCall, outcome, last, cli>>
    /\ UNCHANGED vmecVars
    /\ UNCHANGED buildVars
    /\ UNCHANGED stageFrame

\* lines 416-417 and 425-426
ExportTag ==
    /\ pc = "tag"
    /\ IF args.legacy_faceting
       THEN /\ log' = log \o TagMaterialsLegacy(magnet_set, invessel_build)
            /\ tagMode' = "legacy"
       ELSE /\ log' = log \o TagMaterialsNative(magnet_set, invessel_build)
            /\ tagMode' = "native"
    /\ pc' = NextStage("tag")
    /\ UNCHANGED <<phase, tol, args, exportCall, outcome, last, cli>>
    /\ UNCHANGED vmecVars
    /\ UNCHANGED buildVars
    /\ UNCHANGED stageFrame

\* the call of cubit_io.export_dagmc_cubit_legacy / _native with its
\* tolerance keyword arguments (filename and export_dir are passed through)
FacetCall(legacy_faceting, t) ==
    IF legacy_faceting
    THEN [fn |-> "export_legacy",
          kw |-> [faceting_tolerance |-> t.faceting_tolerance,
                  length_tolerance |-> t.length_tolerance,
                  normal_tolerance |-> t.normal_tolerance]]
    ELSE [fn |-> "export_native",
          kw |-> [anisotropic_ratio |-> t.anisotropic_ratio,
                  deviation_angle |-> t.deviation_angle]]

\* lines 418-424 and 427-432
ExportFacet ==
    /\ pc = "facet"
    /\ LET call == FacetCall(args.legacy_faceting, tol)
       IN  /\ exportCall' = Append(exportCall, call)
           /\ log' = Append(log, Cmd(call.fn, << >>, NoId, {}))
    /\ outcome' = "exported"
    /\ pc' = NextStage("facet")
    /\ UNCHANGED <<phase, tol, args, tagMode, last, cli>>
    /\ UNCHANGED vmecVars
    /\ UNCHANGED buildVars
    /\ UNCHANGED stageFrame

---------------------------------------------------------------------------
(* export_invessel_build, lines 187-191; export_magnets, lines 244-254;   *)
(* construct_source_mesh, lines 275-285; export_source_mesh, lines 298-301 *)

\* InVesselBuild.export_step writes one STEP file per component, named
\* after the component
StepFiles(rbd) == { << rbd[i].name, "step" >> : i \in DOMAIN rbd }

\* on a Stellarator without an in-vessel build the method call on None
\* raises AttributeError
ExportInvesselBuild(export_cad_to_dagmc) ==
    /\ phase = "live"
    /\ pc = "idle"
    /\ files' =
         IF invessel_build.set
         THEN files \cup StepFiles(invessel_build.rbd)
                \cup (IF export_cad_to_dagmc
                      THEN { << "dagmc", "h5m" >> } ELSE {})
         ELSE files
    /\ Called("export_invessel_build", ~invessel_build.set)
    /\ UNCHANGED <<phase, buildCalls, source_mesh>>
    /\ UNCHANGED vmecVars
    /\ UNCHANGED buildVars
    /\ UNCHANGED exportVars

ExportMagnets(export_mesh) ==
    /\ phase = "live"
    /\ pc = "idle"
    /\ files' =
         IF magnet_set.set
         THEN files \cup { << "magnets", "step" >> }
                \cup (IF export_mesh
                      THEN { << "magnet_mesh", "h5m" >> } ELSE {})
         ELSE files
    /\ Called("export_magnets", ~magnet_set.set)
    /\ UNCHANGED <<phase, buildCalls, source_mesh>>
    /\ UNCHANGED vmecVars
    /\ UNCHANGED buildVars
    /\ UNCHANGED exportVars

\* the SourceMesh is built from the equilibrium data alone
ConstructSourceMesh ==
    /\ phase = "live"
    /\ pc = "idle"
    /\ source_mesh' = [set |-> TRUE]
    /\ Called("construct_source_mesh", FALSE)
    /\ UNCHANGED <<phase, buildCalls, files>>
    /\ UNCHANGED vmecVars
    /\ UNCHANGED buildVars
    /\ UNCHANGED exportVars

ExportSourceMesh ==
    /\ phase = "live"
    /\ pc = "idle"
    /\ files' = IF source_mesh.set
                THEN files \cup { << "source_mesh", "h5m" >> }
                ELSE files
    /\ Called("export_source_mesh", ~source_mesh.set)
    /\ UNCHANGED <<phase, buildCalls, source_mesh>>
    /\ UNCHANGED vmecVars
    /\ UNCHANGED buildVars
    /\ UNCHANGED exportVars

---------------------------------------------------------------------------
(* Specifications *)

Init ==
    /\ phase = "new"
    /\ vmec_file = NoFile
    /\ vmec_obj = NoFile
    /\ vmecCall = [file |-> NoFile, read |-> FALSE, raised |-> "none"]
    /\ invessel_build = NoBuild
    /\ magnet_set = NoMagnets
    /\ lastVolId = 0
    /\ tol = UnsetTol
    /\ pc = "idle"
    /\ args = NoArgs
    /\ log = << >>
    /\ tagMode = "none"
    /\ exportCall = << >>
    /\ outcome = "none"
    /\ last = NoLast
    /\ buildCalls = NoCalls
    /\ source_mesh = NoMesh
    /\ meshSeen = FALSE
    /\ files = {}
    /\ cli = NoCli

Construct ==
    \/ \E file \in Files, readOk \in BOOLEAN : New(file, readOk)
    \/ \E toroidal_angles \in ValidAngles, rb \in RadialBuilds :
          ConstructInvesselBuild(toroidal_angles, rb)
    \/ \E mat_tag \in MagnetTags, n \in 1..MaxCoils :
          ConstructMagnets(mat_tag, n)

\* the stages of an export_dagmc call that has begun
ExportStages == ExportImport \/ ExportResolve \/ ExportTag \/ ExportFacet

\* construction and export: the assembly pipeline
Next ==
    \/ Construct
    \/ \E skip_imprint \in BOOLEAN, legacy_faceting \in BOOLEAN,
          kwargs \in KwargsMain :
          ExportBegin(skip_imprint, legacy_faceting, kwargs)
    \/ ExportStages

Spec == Init /\ [][Next]_vars

\* construction, also from toroidal angles the RadialBuild constructor
\* rejects, and assignment of the equilibrium file
NextVmec ==
    \/ \E file \in Files, readOk \in BOOLEAN : New(file, readOk)
    \/ \E toroidal_angles \in ToroidalAngles, rb \in RadialBuilds :
          ConstructInvesselBuild(toroidal_angles, rb)
    \/ \E mat_tag \in MagnetTags, n \in 1..MaxCoils :
          ConstructMagnets(mat_tag, n)
    \/ \E file \in Files, readOk \in BOOLEAN : SetVmecFile(file, readOk)

SpecVmec == Init /\ [][NextVmec]_vars

\* the tolerance keyword arguments of export_dagmc, on a Stellarator with
\* at most a one-component in-vessel build
NextTol ==
    \/ \E file \in Files, readOk \in BOOLEAN : New(file, readOk)
    \/ \E toroidal_angles \in ValidAngles,
          rb \in { r \in RadialBuilds : Len(r) = 1 } :
          ConstructInvesselBuild(toroidal_angles, rb)
    \/ \E skip_imprint \in BOOLEAN, legacy_faceting \in BOOLEAN,
          kwargs \in KwargsChoices :
          ExportBegin(skip_imprint, legacy_faceting, kwargs)
    \/ ExportStages

SpecTol == Init /\ [][NextTol]_vars

\* the source mesh next to the assembly: export_dagmc with default
\* tolerances, before and after a source mesh is constructed and exported
NextMesh ==
    \/ \E file \in Files, readOk \in BOOLEAN : New(file, readOk)
    \/ \E toroidal_angles \in ValidAngles, rb \in RadialBuilds :
          ConstructInvesselBuild(toroidal_angles, rb)
    \/ \E mat_tag \in MagnetTags, n \in 1..MaxCoils :
          ConstructMagnets(mat_tag, n)
    \/ ConstructSourceMesh
    \/ ExportSourceMesh
    \/ \E skip_imprint \in BOOLEAN, legacy_faceting \in BOOLEAN :
          ExportBegin(skip_imprint, legacy_faceting, << >>)
    \/ ExportStages

SpecMesh == Init /\ [][NextMesh]_vars

\* the statements of parastell() with the DAGMC export moved before the
\* STEP exports
CliOrderDagmcFirst ==
    << "Stellarator", "construct_invessel_build", "construct_magnets",
       "construct_source_mesh", "export_dagmc", "export_invessel_build",
       "export_magnets", "export_source_mesh" >>

\* lines 472-486: the calls of parastell(), in the order of its statements
CliOrder ==
    << "Stellarator", "construct_invessel_build", "export_invessel_build",
       "construct_magnets", "export_magnets", "construct_source_mesh",
       "export_source_mesh", "export_dagmc" >>

\* lines 466-470: parastell() reads its configuration; nothing is built yet
CliStart ==
    /\ phase = "new"
    /\ ~cli.on
    /\ cli' = [on |-> TRUE, failed |-> FALSE, trace |-> << >>]
    /\ UNCHANGED <<phase, buildCalls>>
    /\ UNCHANGED vmecVars
    /\ UNCHANGED buildVars
    /\ UNCHANGED exportVars
    /\ UNCHANGED meshVars

\* one call of parastell(), its arguments taken from the configuration file
CliCall(op) ==
    CASE op = "Stellarator" ->
            \E file \in Files, readOk \in BOOLEAN : New(file, readOk)
      [] op = "construct_invessel_build" ->
            \E toroidal_angles \in ToroidalAngles, rb \in RadialBuilds :
               ConstructInvesselBuild(toroidal_angles, rb)
      [] op = "export_invessel_build" ->
            \E export_cad_to_dagmc \in BOOLEAN :
               ExportInvesselBuild(export_cad_to_dagmc)
      [] op = "construct_magnets" ->
            \E mat_tag \in MagnetTags, n \in 1..MaxCoils :
               ConstructMagnets(mat_tag, n)
      [] op = "export_magnets" ->
            \E export_mesh \in BOOLEAN : ExportMagnets(export_mesh)
      [] op = "construct_source_mesh" -> ConstructSourceMesh
      [] op = "export_source_mesh" -> ExportSourceMesh
      [] op = "export_dagmc" ->
            \E skip_imprint \in BOOLEAN, legacy_faceting \in BOOLEAN,
               kwargs \in KwargsMain :
               ExportBegin(skip_imprint, legacy_faceting, kwargs)

\* the next statement of parastell() runs when the one before it has
\* returned; an exception has ended the run
CliStep ==
    /\ cli.on
    /\ ~cli.failed
    /\ pc = "idle"
    /\ Len(cli.trace) < Len(CliOrder)
    /\ CliCall(CliOrder[Len(cli.trace) + 1])

\* one run of the command-line script
NextCli ==
    \/ CliStart
    \/ CliStep
    \/ ExportStages

SpecCli == Init /\ [][NextCli]_vars

---------------------------------------------------------------------------
(* Reading the record of a call *)

OpsOf(cmds) == [i \in DOMAIN cmds |-> cmds[i].op]
ImportCmds == SelectSeq(log, LAMBDA c : c.op \in ImportOps)
ResolveLog == SelectSeq(log, LAMBDA c : c.op \in ResolveOps)
TagLog == SelectSeq(log, LAMBDA c : c.op \in TagOps)
FacetLog == SelectSeq(log, LAMBDA c : c.op \in FacetOps)
HasOp(ops) == \E i \in DOMAIN log : log[i].op \in ops
\* the call got past its resolution step
Resolved == pc \in {"tag", "facet"} \/ outcome = "exported"

---------------------------------------------------------------------------
(* C1..C3: the order and the exclusivity of the stages *)

\* C1: in every export_dagmc call the commands are issued in stage order:
\* imports, then the resolution step, then the tagging commands, then the
\* one faceted-export call; no command of an earlier stage follows a command
\* of a later stage, and a call that exported went through the resolution
\* step and ends with its single faceted-export call.
C1_StageOrder ==
    /\ \A i, j \in DOMAIN log :
          i < j => StageOf(log[i].op) <= StageOf(log[j].op)
    /\ Len(FacetLog) <= 1
    /\ outcome = "exported" =>
          /\ Len(FacetLog) = 1
          /\ log[Len(log)].op \in FacetOps
          /\ Len(ResolveLog) >= 1
    /\ outcome # "exported" => Len(FacetLog) = 0

\* an export of two components and a magnet set that issued all four stages
C1_Witness ==
    /\ outcome = "exported"
    /\ Len(invessel_build.rbd) = 2
    /\ magnet_set.set
    /\ Len(ImportCmds) = 2
    /\ Len(ResolveLog) >= 1
    /\ Len(TagLog) = 3
    /\ Len(FacetLog) = 1

\* C2: one tagging mode and one faceted export per call, and they match:
\* under legacy_faceting only group commands and the legacy export, under
\* native faceting only material/block commands and the native export.
C2_TaggingExclusive ==
    /\ args.legacy_faceting =>
          /\ ~HasOp(BlockOps \cup {"export_native"})
          /\ tagMode \in {"none", "legacy"}
    /\ ~args.legacy_faceting =>
          /\ ~HasOp(GroupOps \cup {"export_legacy"})
          /\ tagMode \in {"none", "native"}
    /\ Len(exportCall) <= 1
    /\ pc = "facet" \/ outcome = "exported" =>
          tagMode = IF args.legacy_faceting THEN "legacy" ELSE "native"
    /\ outcome = "exported" =>
          /\ Len(exportCall) = 1
          /\ exportCall[1].fn = IF args.legacy_faceting THEN "export_legacy"
                                ELSE "export_native"
          /\ OpsOf(FacetLog) = << exportCall[1].fn >>
    /\ outcome # "exported" => exportCall = << >> /\ FacetLog = << >>
    /\ pc \in {"import", "resolve", "tag"} => tagMode = "none" /\ TagLog = << >>

\* a native export of a build and a magnet set: blocks, and the native call
C2_Witness ==
    /\ outcome = "exported"
    /\ ~args.legacy_faceting
    /\ invessel_build.set /\ magnet_set.set
    /\ HasOp({"block_add"})
    /\ exportCall[1].fn = "export_native"

\* C3: one resolution path per call, chosen by skip_imprint: without it
\* 'imprint volume all' then 'merge volume all' and no merge_layer_surfaces;
\* with it merge_layer_surfaces alone.  (A call that raised at line 411,
\* skip_imprint without an in-vessel build, issued no resolution command.)
C3_ResolutionExclusive ==
    /\ ~args.skip_imprint => ~HasOp({"merge_layer_surfaces"})
    /\ args.skip_imprint => ~HasOp({"imprint_all", "merge_all"})
    /\ Resolved =>
          OpsOf(ResolveLog) = IF args.skip_imprint
                              THEN << "merge_layer_surfaces" >>
                              ELSE << "imprint_all", "merge_all" >>
    /\ ~Resolved => ResolveLog = << >>
    /\ outcome = "AttributeError" =>
          args.skip_imprint /\ ~invessel_build.set

\* an export with skip_imprint that called merge_layer_surfaces
C3_Witness ==
    /\ outcome = "exported"
    /\ args.skip_imprint
    /\ OpsOf(ResolveLog) = << "merge_layer_surfaces" >>
    /\ invessel_build.set

---------------------------------------------------------------------------
(* C4..C6: what the import and the tagging produce *)

\* the constructed entities, their tags and their volumes
Components == IF invessel_build.set THEN DOMAIN invessel_build.rbd ELSE {}
Comp(i) == invessel_build.rbd[i]
EntityTags ==
    { Comp(i).mat_tag : i \in Components }
    \cup (IF magnet_set.set THEN {magnet_set.mat_tag} ELSE {})
EntityCount == Cardinality(Components) + (IF magnet_set.set THEN 1 ELSE 0)
TagsDistinct == Cardinality(EntityTags) = EntityCount
\* the volume was imported by this call, for the file of component `name`
ImportedAs(name, v) ==
    \E j \in DOMAIN log : log[j] = Cmd("import_step", << name >>, NoId, {v})
ImportedVolumes == UNION { ImportCmds[j].vols : j \in DOMAIN ImportCmds }

\* the kernel's groups after the group commands of the log
GroupNames == { TagLog[j].name : j \in { k \in DOMAIN TagLog :
                                          TagLog[k].op = "group_add" } }
GroupVols(name) ==
    UNION { TagLog[j].vols : j \in { k \in DOMAIN TagLog :
               TagLog[k].op = "group_add" /\ TagLog[k].name = name } }
\* the kernel's blocks after the block commands of the log
BlockIds == { TagLog[j].block : j \in { k \in DOMAIN TagLog :
                                         TagLog[k].op = "block_add" } }
BlockVols(id) ==
    UNION { TagLog[j].vols : j \in { k \in DOMAIN TagLog :
               TagLog[k].op = "block_add" /\ TagLog[k].block = id } }
BlockMaterials(id) ==
    { TagLog[j].name : j \in { k \in DOMAIN TagLog :
         TagLog[k].op = "block_material" /\ TagLog[k].block = id } }
MaterialsCreated ==
    { TagLog[j].name : j \in { k \in DOMAIN TagLog :
                                TagLog[k].op = "create_material" } }

\* C4 as amended: when export_dagmc leaves the import stage, every
\* component of a constructed in-vessel build has been imported by this
\* call, the import gave it an identifier the session had not handed out
\* before, distinct from the others', and the identifier is stored in the
\* component's record beside its name and material tag; the magnet set is
\* not imported: it is unchanged and no import touches its volumes.
C4_ComponentsImported ==
    [][ (pc = "import" /\ pc' = "resolve") =>
          /\ \A i \in DOMAIN invessel_build'.rbd :
                LET c == invessel_build'.rbd[i]
                IN  /\ c.vol_id > lastVolId
                    /\ c.vol_id <= lastVolId'
                    /\ c.name = invessel_build.rbd[i].name
                    /\ c.mat_tag = invessel_build.rbd[i].mat_tag
                    /\ \E j \in DOMAIN log' :
                          log'[j] = Cmd("import_step", << c.name >>, NoId,
                                        {c.vol_id})
                    /\ \A k \in DOMAIN invessel_build'.rbd :
                          k # i => invessel_build'.rbd[k].vol_id # c.vol_id
          /\ Len(log') = Len(invessel_build'.rbd)
          /\ magnet_set' = magnet_set
          /\ \A j \in DOMAIN log' : log'[j].vols \cap magnet_set.volume_ids = {}
      ]_vars

\* the import stage is left with two components imported beside a magnet set
C4_Witness ==
    /\ pc = "resolve"
    /\ magnet_set.set
    /\ Len(invessel_build.rbd) = 2
    /\ \A i \in Components : ImportedAs(Comp(i).name, Comp(i).vol_id)

\* C4 as stated: when the import stage is left, the components and the
\* magnet set have all been imported by this call.
C4_AllImported ==
    pc = "resolve" =>
       /\ \A i \in Components : ImportedAs(Comp(i).name, Comp(i).vol_id)
       /\ magnet_set.set => magnet_set.volume_ids \subseteq ImportedVolumes

\* C5: after _tag_materials_legacy there is a group 'mat:<tag>' for the tag
\* of every constructed entity and no other group; the magnet-tag group
\* holds all magnet volumes, each component's volume is in the group of its
\* own tag, and no volume is in a group of another tag; k components and a
\* magnet set of N volumes with pairwise distinct tags give k + 1 groups
\* covering k + N volumes.
C5_LegacyGroups ==
    tagMode = "legacy" =>
       /\ GroupNames = { << "mat:", t >> : t \in EntityTags }
       /\ magnet_set.set =>
             magnet_set.volume_ids
                \subseteq GroupVols(<< "mat:", magnet_set.mat_tag >>)
       /\ \A i \in Components :
             Comp(i).vol_id \in GroupVols(<< "mat:", Comp(i).mat_tag >>)
       /\ \A name \in GroupNames :
             GroupVols(name) =
                { Comp(i).vol_id :
                    i \in { k \in Components :
                              name = << "mat:", Comp(k).mat_tag >> } }
                \cup (IF magnet_set.set
                         /\ name = << "mat:", magnet_set.mat_tag >>
                      THEN magnet_set.volume_ids ELSE {})
       /\ TagsDistinct =>
             /\ Cardinality(GroupNames) = EntityCount
             /\ Cardinality(UNION { GroupVols(n) : n \in GroupNames })
                   = Cardinality(Components)
                     + Cardinality(magnet_set.volume_ids)
             /\ \A n1, n2 \in GroupNames :
                   n1 # n2 => GroupVols(n1) \cap GroupVols(n2) = {}

\* legacy tagging of two components and two magnet volumes, all three tags
\* distinct: three groups covering four volumes
C5_Witness ==
    /\ tagMode = "legacy"
    /\ Len(invessel_build.rbd) = 2
    /\ Cardinality(magnet_set.volume_ids) = 2
    /\ TagsDistinct
    /\ Cardinality(GroupNames) = 3

\* C6 as amended: _tag_materials_native creates one block per entity (the
\* magnet set and each component), so entities that share a tag get
\* separate blocks bound to the same material; the magnet block's
\* identifier is the minimum magnet volume identifier and it holds all
\* magnet volumes, each component's block has the component's volume
\* identifier and holds that volume alone, and each block is bound to the
\* material named by its entity's tag.
C6_NativeBlocks ==
    tagMode = "native" =>
       /\ BlockIds =
             { Comp(i).vol_id : i \in Components }
             \cup (IF magnet_set.set THEN {Min(magnet_set.volume_ids)}
                   ELSE {})
       /\ Cardinality(BlockIds) = EntityCount
       /\ magnet_set.set =>
             /\ \A v \in magnet_set.volume_ids :
                   Min(magnet_set.volume_ids) <= v
             /\ BlockVols(Min(magnet_set.volume_ids)) = magnet_set.volume_ids
             /\ BlockMaterials(Min(magnet_set.volume_ids))
                   = { << magnet_set.mat_tag >> }
       /\ \A i \in Components :
             /\ BlockVols(Comp(i).vol_id) = { Comp(i).vol_id }
             /\ BlockMaterials(Comp(i).vol_id) = { << Comp(i).mat_tag >> }
       /\ MaterialsCreated = { << t >> : t \in EntityTags }
       /\ OpsOf(TagLog)[1] = "set_duplicate_off"

\* native tagging where a component carries the magnet set's tag: three
\* blocks for two distinct tags
C6_Witness ==
    /\ tagMode = "native"
    /\ Len(invessel_build.rbd) = 2
    /\ Cardinality(magnet_set.volume_ids) = 2
    /\ ~TagsDistinct
    /\ Cardinality(BlockIds) = 3
    /\ Cardinality(EntityTags) = 2

\* C6 as stated: one block per distinct material tag, also when entities
\* share a tag.
C6_BlockPerTag ==
    tagMode = "native" => Cardinality(BlockIds) = Cardinality(EntityTags)

---------------------------------------------------------------------------
(* C7: the tolerance regimes *)

\* the value export_dagmc was given for keyword n in this call, or else d
Supplied(n, d) == IF n \in DOMAIN args.kwargs THEN args.kwargs[n] ELSE d
Selected(legacy_faceting) ==
    IF legacy_faceting THEN LegacyNames ELSE NativeNames
\* two keyword dictionaries agree on the names in S
AgreeOn(S, kw1, kw2) ==
    \A n \in S :
       /\ n \in DOMAIN kw1 <=> n \in DOMAIN kw2
       /\ n \in DOMAIN kw1 => kw1[n] = kw2[n]

\* C7: the faceted-export call receives the selected regime's parameters
\* only: under legacy faceting the three tolerances, each None unless
\* supplied in this call; under native faceting anisotropic_ratio and
\* deviation_angle, 100.0 and 5.0 unless supplied in this call.  Parameters
\* of the other regime raise no error and change neither the commands issued
\* nor the export call: two successive exports whose arguments differ only in
\* them issue the same commands and make the same export call.
C7_ToleranceRegimes ==
    /\ Len(exportCall) <= 1
    /\ exportCall # << >> =>
          exportCall[1] =
             IF args.legacy_faceting
             THEN [fn |-> "export_legacy",
                   kw |-> [faceting_tolerance |->
                              Supplied("faceting_tolerance", "None"),
                           length_tolerance |->
                              Supplied("length_tolerance", "None"),
                           normal_tolerance |->
                              Supplied("normal_tolerance", "None")]]
             ELSE [fn |-> "export_native",
                   kw |-> [anisotropic_ratio |->
                              Supplied("anisotropic_ratio", "100.0"),
                           deviation_angle |->
                              Supplied("deviation_angle", "5.0")]]
    /\ outcome = "AttributeError" => args.skip_imprint /\ ~invessel_build.set
    /\ ( /\ last.valid
         /\ outcome \in {"exported", "AttributeError"}
         /\ last.args.skip_imprint = args.skip_imprint
         /\ last.args.legacy_faceting = args.legacy_faceting
         /\ AgreeOn(Selected(args.legacy_faceting), last.args.kwargs,
                    args.kwargs) )
       => /\ exportCall = last.call
          /\ OpsOf(log) = last.ops
          /\ Grouping(log) = last.grouping
          /\ outcome = last.outcome

\* a legacy export given a legacy and a native tolerance, right after a
\* legacy export given the legacy tolerance alone
C7_Witness ==
    /\ outcome = "exported"
    /\ args.legacy_faceting
    /\ DOMAIN args.kwargs = {"faceting_tolerance", "anisotropic_ratio"}
    /\ exportCall[1].kw.faceting_tolerance = "1e-2"
    /\ exportCall[1].kw.length_tolerance = "None"
    /\ last.valid
    /\ last.outcome = "exported"
    /\ last.args.legacy_faceting
    /\ last.args.skip_imprint = args.skip_imprint
    /\ DOMAIN last.args.kwargs = {"faceting_tolerance"}

---------------------------------------------------------------------------
(* C8, C9: successive exports *)

\* C8: two export_dagmc calls in a row with identical arguments on an
\* unchanged Stellarator end the same way and make the same grouping
\* decisions: the same tagging commands with the same group and block names
\* and volume counts, each entity under the same tag with the same number
\* of volumes (the volume identifiers may differ).
C8_ExportIdempotent ==
    ( /\ last.valid
      /\ outcome \in {"exported", "AttributeError"}
      /\ last.args = args )
    => /\ outcome = last.outcome
       /\ Grouping(log) = last.grouping
       /\ Mapping(log, magnet_set) = last.mapping
       /\ exportCall = last.call

\* a second native export of two components and a magnet set, with the
\* arguments of the first
C8_Witness ==
    /\ last.valid
    /\ last.args = args
    /\ outcome = "exported"
    /\ last.outcome = "exported"
    /\ ~args.legacy_faceting
    /\ Len(invessel_build.rbd) = 2
    /\ magnet_set.set
    /\ Cardinality(last.mapping) = 3

\* C9 as amended: every call restarts from the empty stage and re-imports
\* every component, overwriting its vol_id with an identifier no component
\* held before, so the tagging commands name only volumes imported by the
\* same call or, for the magnet set, the volumes recorded by
\* construct_magnets; the vol_id values are not discarded when the call
\* completes: they stay in radial_build_dict until the next call's import.
C9_RebuiltPerExport ==
    /\ [] ( /\ \A j \in DOMAIN TagLog :
                  TagLog[j].vols
                     \subseteq ImportedVolumes \cup magnet_set.volume_ids
            /\ (pc \in {"resolve", "tag", "facet"} \/ outcome = "exported")
                  => \A i \in Components :
                        ImportedAs(Comp(i).name, Comp(i).vol_id)
            /\ outcome = "exported" =>
                  \A i \in Components : Comp(i).vol_id # NoId )
    /\ [][ (pc = "idle" /\ pc' # "idle") =>
              /\ pc' = "import"
              /\ log' = << >> /\ tagMode' = "none" /\ exportCall' = << >>
         ]_vars
    /\ [][ (pc = "import" /\ pc' # "import") =>
              \A i \in DOMAIN invessel_build'.rbd :
                 \A k \in DOMAIN invessel_build.rbd :
                    invessel_build'.rbd[i].vol_id
                       # invessel_build.rbd[k].vol_id
         ]_vars
    /\ [][ (outcome = "exported" /\ outcome' = "exported") =>
              invessel_build' = invessel_build
         ]_vars

\* a second export has replaced the identifiers the first one stored
C9_Witness ==
    /\ last.valid
    /\ last.outcome = "exported"
    /\ outcome = "exported"
    /\ pc = "idle"
    /\ magnet_set.set
    /\ Len(invessel_build.rbd) = 2
    /\ \A i \in Components :
          Comp(i).vol_id # NoId /\ ImportedAs(Comp(i).name, Comp(i).vol_id)

\* C9 as stated: the tagging commands of a call use only identifiers
\* assigned during that call, and no assigned identifier is kept once the
\* call has completed.
C9_Discarded ==
    /\ \A j \in DOMAIN TagLog : TagLog[j].vols \subseteq ImportedVolumes
    /\ pc = "idle" => \A i \in Components : Comp(i).vol_id = NoId

---------------------------------------------------------------------------
(* C10: the vmec_file setter *)

\* C10 as stated: assigning a file whose extension is not '.nc' raises the
\* configuration error before anything is done with the file: the reader
\* is not invoked on it, and it replaces neither the stored path nor the
\* stored equilibrium object.
C10_EagerReject ==
    (vmecCall.file # NoFile /\ Suffix(vmecCall.file) # "nc") =>
       /\ vmecCall.raised = "ValueError"
       /\ ~vmecCall.read
       /\ vmec_file # vmecCall.file
       /\ vmec_obj # vmecCall.file

---------------------------------------------------------------------------
(* C11: a radial build the RadialBuild constructor rejects *)

\* C11: a construct_invessel_build call whose radial build fails validation
\* raises ValidationError at the RadialBuild constructor: that constructor is
\* the only call the method has made, and it is made once (no retry); no
\* InVesselBuild is created and none of populate_surfaces, calculate_loci,
\* generate_components is called; invessel_build keeps the value it had
\* before the call.
C11_RejectedBeforeBuild ==
    [][ buildCalls'.raised = "ValidationError"
          => /\ buildCalls'.calls = << "RadialBuild" >>
             /\ invessel_build' = invessel_build ]_vars

\* an in-vessel build exists and a later call was rejected
C11_Witness ==
    /\ buildCalls.raised = "ValidationError"
    /\ invessel_build.set

---------------------------------------------------------------------------
(* C12: the source mesh and the assembly *)

\* the finished call and the one before it had the same arguments, and a
\* source mesh existed at the start of one of them only
C12_MeshDiffers ==
    /\ outcome \in {"exported", "AttributeError"}
    /\ last.valid
    /\ last.args = args
    /\ last.mesh # meshSeen

\* C12: the source mesh takes no part in the assembly.  An export_dagmc call
\* issues the same sequence of import, resolution, tagging and faceting
\* commands, and makes the same faceted-export call, as the same call on the
\* same Stellarator made when the source mesh was (not) yet constructed;
\* no step of export_dagmc changes source_mesh; and construct_source_mesh
\* and export_source_mesh leave invessel_build, magnet_set and every
\* recorded volume identifier as they were.
C12_MeshApart ==
    /\ [](C12_MeshDiffers
            => /\ last.ops = OpsOf(log)
               /\ last.grouping = Grouping(log)
               /\ last.mapping = Mapping(log, magnet_set)
               /\ last.call = exportCall
               /\ last.outcome = outcome)
    /\ [][(pc # "idle" \/ pc' # "idle") => source_mesh' = source_mesh]_vars
    /\ [][(source_mesh' # source_mesh \/ files' # files)
             => UNCHANGED <<invessel_build, magnet_set>>]_vars

\* two exports of a build with magnets, the source mesh constructed and
\* exported between them
C12_Witness ==
    /\ C12_MeshDiffers
    /\ meshSeen
    /\ outcome = "exported"
    /\ invessel_build.set
    /\ magnet_set.set
    /\ << "source_mesh", "h5m" >> \in files

---------------------------------------------------------------------------
(* C13: which export_dagmc calls reach the faceted export *)

\* C13: an export_dagmc call always has a next step until it ends, and it
\* ends in one of two ways.  With skip_imprint and no in-vessel build it
\* ends with AttributeError at the resolution step, having issued no
\* resolution, tagging or faceting command and no faceted-export call.  In
\* every other case (in-vessel build, magnet set or both, either value of
\* legacy_faceting and of skip_imprint) it ends after its one faceted-export
\* call.
C13_ReachesFacet ==
    /\ pc # "idle" => outcome = "running" /\ ENABLED ExportStages
    /\ pc = "idle" => outcome \in {"none", "exported", "AttributeError"}
    /\ outcome \in {"exported", "AttributeError"}
         => (outcome = "AttributeError"
               <=> args.skip_imprint /\ ~invessel_build.set)
    /\ outcome = "AttributeError"
         => /\ ~HasOp(ResolveOps \cup TagOps \cup FacetOps)
            /\ tagMode = "none"
            /\ exportCall = << >>
    /\ outcome = "exported"
         => /\ Len(exportCall) = 1
            /\ Len(FacetLog) = 1
            /\ tagMode = (IF args.legacy_faceting THEN "legacy" ELSE "native")

\* a native export of a magnet set alone, with skip_imprint, has failed
C13_Witness ==
    /\ outcome = "AttributeError"
    /\ magnet_set.set
    /\ ~args.legacy_faceting

---------------------------------------------------------------------------
(* C14: tolerances from one export to the next *)

\* C14: tolerance values do not carry over between export_dagmc calls.  From
\* the start of each call the five tolerance attributes hold, each, the value
\* this call's keyword arguments supply or else the default (None, None,
\* None, 100.0, 5.0), whatever an earlier call supplied; so a tolerance the
\* faceted-export call receives is this call's value or the default.
C14_TolerancesReset ==
    LET default == [faceting_tolerance |-> "None",
                    length_tolerance |-> "None",
                    normal_tolerance |-> "None",
                    anisotropic_ratio |-> "100.0",
                    deviation_angle |-> "5.0"]
    IN  /\ outcome # "none"
             => \A n \in TolNames : tol[n] = Supplied(n, default[n])
        /\ \A i \in DOMAIN exportCall :
              \A n \in DOMAIN exportCall[i].kw :
                 exportCall[i].kw[n] = Supplied(n, default[n])

\* a legacy export without keyword arguments right after a legacy export
\* given every tolerance: the second exports with the defaults
C14_Witness ==
    /\ outcome = "exported"
    /\ args.legacy_faceting
    /\ args.kwargs = << >>
    /\ exportCall[1].kw.faceting_tolerance = "None"
    /\ tol.anisotropic_ratio = "100.0"
    /\ last.valid
    /\ last.outcome = "exported"
    /\ last.args.legacy_faceting
    /\ DOMAIN last.args.kwargs = TolNames
    /\ last.call[1].kw.faceting_tolerance = "1e-2"

---------------------------------------------------------------------------
(* C15: the blocks of one native export *)

\* the positions of the block-creating commands in the tagging commands
BlockAdds == { j \in DOMAIN TagLog : TagLog[j].op = "block_add" }

\* C15: in one native-mode export the blocks created have pairwise distinct
\* identifiers and pairwise disjoint volumes (every volume is added to at
\* most one block): the magnet block's identifier, the least magnet volume
\* identifier, is no component's volume identifier, and no two components
\* have the same volume identifier, hence block identifier.
C15_BlocksDistinct ==
    tagMode = "native" =>
       /\ \A j, k \in BlockAdds :
             j # k => /\ TagLog[j].block # TagLog[k].block
                      /\ TagLog[j].vols \cap TagLog[k].vols = {}
       /\ magnet_set.set =>
             \A i \in Components :
                Min(magnet_set.volume_ids) # Comp(i).vol_id
       /\ \A i, k \in Components : i # k => Comp(i).vol_id # Comp(k).vol_id
       /\ Cardinality(BlockAdds) = EntityCount

\* a native export of two components and two coils has tagged its blocks
C15_Witness ==
    /\ tagMode = "native"
    /\ outcome = "exported"
    /\ Cardinality(Components) = 2
    /\ Cardinality(magnet_set.volume_ids) = 2
    /\ Cardinality(BlockAdds) = 3

---------------------------------------------------------------------------
(* C16: the command-line pipeline *)

\* C16: parastell() runs its operations in one fixed order: the Stellarator
\* is created, then construct_invessel_build, export_invessel_build,
\* construct_magnets, export_magnets, construct_source_mesh,
\* export_source_mesh, export_dagmc.  Hence a subsystem's files are written
\* only once it is constructed, and every STEP import of export_dagmc is of
\* a component whose STEP file has been exported.  Once a step has failed,
\* nothing further happens.
C16_PipelineOrder ==
    /\ [](LET order == << "Stellarator", "construct_invessel_build",
                          "export_invessel_build", "construct_magnets",
                          "export_magnets", "construct_source_mesh",
                          "export_source_mesh", "export_dagmc" >>
          IN  cli.on =>
                /\ Len(cli.trace) <= Len(order)
                /\ \A i \in DOMAIN cli.trace : cli.trace[i] = order[i]
                /\ \A f \in files :
                      \/ f[1] \in { "magnets", "magnet_mesh" }
                            /\ magnet_set.set
                      \/ f[1] = "source_mesh" /\ source_mesh.set
                      \/ invessel_build.set
                /\ \A j \in DOMAIN ImportCmds :
                      ImportCmds[j].name \o << "step" >> \in files)
    /\ [][cli.failed => UNCHANGED vars]_vars

\* a run has gone through all its steps and exported both subsystems
C16_Witness ==
    /\ cli.on
    /\ ~cli.failed
    /\ Len(cli.trace) = 8
    /\ outcome = "exported"
    /\ Len(ImportCmds) = 2
    /\ << "source_mesh", "h5m" >> \in files
    /\ << "magnets", "step" >> \in files

===========================================================================
